---- MODULE Spec2Model ----
(***************************************************************************)
(* GeoSpot: the map component (src/src/components/MapDisplay.tsx, lines    *)
(* 1-230, MapEvents + MapDisplayComponent) driven by the page `Home`       *)
(* (src/src/app/page.tsx, lines 368-720) on top of the Leaflet map widget. *)
(*                                                                         *)
(* Coordinates are integers in units of 1e-6 degree, so the reconcile      *)
(* tolerance 0.00001 is 10 units.  A position is <<lat, lng>>.             *)
(*                                                                         *)
(* React is modelled by render passes: a pass renders with the current     *)
(* props and state and then runs, in declaration order, every effect whose *)
(* dependency list differs from the one of the previous render.  Handlers  *)
(* (clicks, moveend) only set state; the pass that follows applies it.     *)
(*                                                                         *)
(* The widget is Leaflet: setView moves the camera at once and keeps the   *)
(* zoom when none is passed, flyTo starts an animation that ends later at  *)
(* its target, and every completed move (user or programmatic) raises      *)
(* moveend, which MapEvents listens to.                                    *)
(***************************************************************************)
EXTENDS Integers, Sequences, FiniteSets, TLC

\* ---------------------------------------------------------------- bounds
MaxMounts == 2      \* component mounts (widget instances) explored
MaxToggles == 1     \* follow/unfollow toggles explored
MaxFetches == 1     \* landmark fetches explored
MaxEffectRuns == 3  \* runs of the page's fetch effect explored

\* ------------------------------------------------------ program constants
Tolerance == 10     \* 0.00001 degree, MapDisplay.tsx:117
MinFocusZoom == 15  \* MapDisplay.tsx:145
DefaultZoom == 13   \* MapDisplay.tsx:161
DescriptionCut == 150   \* MapDisplay.tsx:208

\* ------------------------------------------------------------------ data
InitCenterPos == <<100, 100>>          \* page.tsx:369, the default center

UserIds == {"u1"}
\* User.location (types/index.ts:16); always present.
UserLocation(u) == <<500, 300>>

\* Landmark records as the landmark source may return them: lat and lng
\* are optional numbers (Landmark.lat?, Landmark.lng?).  "lmA" lies off
\* the axes, "lmEq" lies on the equator (lat = 0), "lmFar" carries a
\* latitude of 95 degrees, and "lmNoPos" comes without lat and lng (an
\* absent coordinate reads as 0 below: it is only ever tested for
\* truthiness).
LandmarkTitles == {"lmA", "lmEq"}
SourceLandmarks == LandmarkTitles \cup {"lmFar", "lmNoPos"}
HasLatLng(l) == l # "lmNoPos"
LandmarkLat(l) == IF l = "lmA" THEN 300 ELSE IF l = "lmFar" THEN 95000000 ELSE 0
LandmarkLng(l) == IF l = "lmA" THEN 800 ELSE IF l = "lmNoPos" THEN 0 ELSE 700
LandmarkPos(l) == <<LandmarkLat(l), LandmarkLng(l)>>

\* A pair of coordinates is a Position when the latitude lies in
\* [-90, 90] and the longitude in [-180, 180] (in units of 1e-6 degree).
InRange(p) ==
    /\ p[1] >= -90000000 /\ p[1] <= 90000000
    /\ p[2] >= -180000000 /\ p[2] <= 180000000
HasPosition(l) == HasLatLng(l) /\ InRange(LandmarkPos(l))

\* Text is a sequence of characters.  Chars(n) is a text of n distinct
\* characters.
Chars(n) == [i \in 1..n |-> ToString(i)]
Ellipsis == <<".", ".", ".">>
NoDescription == <<"No description available.">>
SummaryUnavailable == <<"Summary unavailable.">>

\* Landmark.description: empty, short, exactly as long as the popup's cut,
\* and one character longer.
Descriptions == {<<>>, Chars(3), Chars(DescriptionCut), Chars(DescriptionCut + 1)}

\* The description of l in a list whose "lmA" is described by d.
LandmarkDescription(l, d) ==
    IF l = "lmA" THEN d ELSE IF l = "lmFar" THEN Chars(3) ELSE <<>>

\* What summarizeLandmarkInfo does for a landmark: it resolves a summary,
\* resolves the empty string (summary: z.string()), or rejects.
Outcomes == {"summary", "empty", "fail"}
SummaryOf(l) == <<"summary of ", l>>

\* Record<string, string> with no keys.
NoSummaries == [k \in {} |-> <<>>]

\* Where a user gesture may leave the camera: within tolerance of u1's
\* location, and far from every entity.
PanPoints == {<<504, 300>>, <<700, 700>>}
ZoomLevels == {17}

\* JavaScript truthiness of a number: 0 (and undefined) are falsy.
Truthy(n) == n # 0

Abs(n) == IF n < 0 THEN -n ELSE n
Max(a, b) == IF a >= b THEN a ELSE b
Min(a, b) == IF a <= b THEN a ELSE b

\* A LatLngExpression value: an array [lat, lng] or a LatLng object
\* {lat, lng}.  `origin` and `late` are bookkeeping: who produced the value,
\* and whether a flyTo was in flight when it was produced.
ArrCenter(p, o, inFlight) == [form |-> "arr", pos |-> p, origin |-> o, late |-> inFlight]
ObjCenter(p, o, inFlight) == [form |-> "obj", pos |-> p, origin |-> o, late |-> inFlight]

\* JSON.stringify(center): an array and an object never print alike.
JsonOf(c) == <<c.form, c.pos>>

NoUser == [id |-> "none", ver |-> 0, kind |-> "none"]
NoLandmark == [title |-> "none", gen |-> 0]
NoFlight == [active |-> FALSE, pos |-> <<0, 0>>, zoom |-> 0]

VARIABLES
    \* page Home
    mapCenter,          \* state mapCenter: the `center` prop
    selectedUser,       \* state selectedUser (an object of `users`, or a copy)
    selectedLandmark,   \* state selectedLandmark
    users,              \* users[u]: version of u's object in state `users`
    toggles,            \* follow toggles so far
    landmarksGen,       \* 0: landmarks = []; g > 0: the list of the g-th fetch
    fetchPending,       \* the fetchLandmarks calls awaiting getLandmarks:
                        \* their number and the landmarkSummaries they see
    fetches,            \* landmark fetches started so far
    descr,              \* description of "lmA" in the list held
    landmarkSummaries,  \* state landmarkSummaries: key -> text
    fetchClosure,       \* landmarkSummaries as the running fetchLandmarks
                        \* call sees it (the value of its render)
    summaryBatches,     \* fetchSummaries calls in flight: their landmarks
    summariesRef,       \* identity of the landmarkSummaries object: every
                        \* setLandmarkSummaries stores a new one
    fetchEffectDeps,    \* [fetchLandmarks, mapCenter] at the last run of the
                        \* fetch effect, <<>> before its first run
    \* MapDisplayComponent
    mounted,            \* the component is in the tree
    isMounted,          \* state isMounted
    currentCenter,      \* state currentCenter
    mapRef,             \* mapRef.current: 0 (null) or an instance id
    eventsMounted,      \* MapEvents is mounted (its effect has run)
    rendered,           \* props and state seen by the last render
    markers,            \* the Marker elements of the last render
    popups,             \* popups[l]: popup text of l's marker
    \* the widget
    widget,             \* instance of the mounted MapContainer, 0 if none
    instances,          \* instances constructed so far
    removeCount,        \* removeCount[i]: remove() calls on instance i
    live,               \* live camera [center, zoom] of `widget`
    flight,             \* flyTo animation in flight
    pendingMoveEnd,     \* origins of the moveend notifications due
    widgetFaulty,       \* the widget's methods throw when called
    \* what the last step did
    cmds,               \* widget calls issued
    evals,              \* reconcile comparisons made
    focusEvals,         \* focus effects that got past their guard
    notes,              \* onMove notifications sent: the live center and
                        \* zoom at that moment, and the arguments passed
    clicks,             \* onMarkerClick calls made by marker click handlers:
                        \* the marker and the item passed
    errors,             \* exceptions thrown by widget calls: which call,
                        \* and whether the component caught it
    \* bookkeeping
    lateDesired,        \* the desired position that arrived and was compared
                        \* while a flyTo was in flight; <<>> when there is
                        \* none, the user has acted since, or a later desired
                        \* center that is not the report of a programmatic
                        \* move has been compared
    moveFailed,         \* a setView or flyTo of this view has thrown
    outcome,            \* outcome[l]: how the last summary request for l
                        \* ended since the cache was last cleared
    trigger             \* "flown": a flyTo has been issued for the selected
                        \* entity; "reselect": after that, with no render
                        \* pending, the selection events only re-selected
                        \* that entity while the camera was on it

vars == <<mapCenter, selectedUser, selectedLandmark, users, toggles,
          landmarksGen, fetchPending, fetches,
          descr, landmarkSummaries, fetchClosure, summaryBatches,
          summariesRef, fetchEffectDeps,
          mounted, isMounted, currentCenter, mapRef, eventsMounted, rendered,
          markers, popups,
          widget, instances, removeCount, live, flight, pendingMoveEnd,
          widgetFaulty,
          cmds, evals, focusEvals, notes, clicks, errors,
          lateDesired, moveFailed, outcome, trigger>>

summaryVars == <<descr, landmarkSummaries, fetchClosure, summaryBatches, outcome,
                 summariesRef, fetchEffectDeps>>
pageVars == <<mapCenter, selectedUser, selectedLandmark, users, toggles,
              landmarksGen, fetchPending, fetches, summaryVars>>
compVars == <<mounted, isMounted, currentCenter, mapRef, eventsMounted, rendered,
              markers, popups>>
widgetVars == <<widget, instances, removeCount, live, flight, pendingMoveEnd,
                widgetFaulty>>

Snapshot == [center |-> mapCenter, currentCenter |-> currentCenter,
             isMounted |-> isMounted,
             selectedUser |-> selectedUser, selectedLandmark |-> selectedLandmark,
             landmarks |-> landmarksGen, descr |-> descr,
             landmarkSummaries |-> landmarkSummaries]

NoLive == [center |-> <<0, 0>>, zoom |-> 0]

Init ==
    /\ mapCenter = ArrCenter(InitCenterPos, "init", FALSE)
    /\ selectedUser = NoUser
    /\ selectedLandmark = NoLandmark
    /\ users = [u \in UserIds |-> 0]
    /\ toggles = 0
    /\ landmarksGen = 0
    /\ fetchPending = {}
    /\ fetches = 0
    /\ descr = <<>>
    /\ landmarkSummaries = NoSummaries
    /\ fetchClosure = NoSummaries
    /\ summaryBatches = {}
    /\ summariesRef = 0
    /\ fetchEffectDeps = <<>>
    /\ outcome = [l \in SourceLandmarks |-> "none"]
    /\ markers = {}
    /\ popups = NoSummaries
    /\ mounted = FALSE
    /\ isMounted = FALSE
    /\ currentCenter = ArrCenter(InitCenterPos, "init", FALSE)
    /\ mapRef = 0
    /\ eventsMounted = FALSE
    /\ rendered = Snapshot
    /\ widget = 0
    /\ instances = 0
    /\ removeCount = [i \in 1..(MaxMounts + 1) |-> 0]
    /\ live = NoLive
    /\ flight = NoFlight
    /\ pendingMoveEnd = {}
    /\ widgetFaulty = FALSE
    /\ errors = <<>>
    /\ moveFailed = FALSE
    /\ cmds = <<>>
    /\ evals = <<>>
    /\ focusEvals = <<>>
    /\ notes = <<>>
    /\ clicks = <<>>
    /\ lateDesired = <<>>
    /\ trigger = "other"

\* A step that calls nothing and notifies nobody.
NoCalls ==
    /\ cmds' = <<>> /\ evals' = <<>> /\ focusEvals' = <<>> /\ notes' = <<>>
    /\ clicks' = <<>>
    /\ errors' = <<>> /\ UNCHANGED moveFailed

\* The camera is at p, or on its way there.
WithinTolerance(p, q) == Abs(p[1] - q[1]) <= Tolerance /\ Abs(p[2] - q[2]) <= Tolerance
Focused(p) ==
    /\ mapRef # 0
    /\ IF flight.active THEN flight.pos = p ELSE WithinTolerance(live.center, p)

\* Bookkeeping of a selection event: `again` says it re-selected the
\* selected entity with the camera on it.
TriggerAfter(again) ==
    IF again /\ ((rendered = Snapshot /\ trigger = "flown") \/ trigger = "reselect")
    THEN "reselect" ELSE "other"

\* Bookkeeping of an event that keeps the selected entity selected.
TriggerKept == IF trigger = "other" THEN "other" ELSE "flown"

\* ------------------------------------------------------------ the widget
\* What one render pass threads through its effects.
WidgetState == [live |-> live, flight |-> flight, pending |-> pendingMoveEnd,
                cmds |-> <<>>, evals |-> <<>>, focusEvals |-> <<>>,
                faulty |-> widgetFaulty, thrown |-> "", errors |-> <<>>]

\* map.setView(center): no zoom is passed, so the zoom stays; a running
\* animation is stopped; the move raises moveend.
SetView(st, c) ==
    IF st.faulty THEN [st EXCEPT !.thrown = "setView"] ELSE
    [st EXCEPT !.live = [center |-> c.pos, zoom |-> st.live.zoom],
               !.flight = NoFlight,
               !.pending = @ \cup {"setView"},
               !.cmds = Append(@, [op |-> "setView", pos |-> c.pos,
                                   zoom |-> st.live.zoom])]

\* map.flyTo(target, zoom, {duration: 0.5}): starts the animation.
FlyTo(st, p, z) ==
    IF st.faulty THEN [st EXCEPT !.thrown = "flyTo"] ELSE
    [st EXCEPT !.flight = [active |-> TRUE, pos |-> p, zoom |-> z],
               !.cmds = Append(@, [op |-> "flyTo", pos |-> p, zoom |-> z])]

\* ------------------------------------------------- MapDisplayComponent
\* No try around the call: what it throws leaves the effect.
Uncaught(st) == st

\* try { ... } catch (error) { console.error(...) }: what the call threw
\* is logged and goes no further.
Caught(st) ==
    IF st.thrown = "" THEN st
    ELSE [st EXCEPT !.thrown = "",
                    !.errors = Append(@, [op |-> st.thrown, caught |-> TRUE])]

\* An effect returns: an exception nothing caught leaves it, and the
\* effects declared after it still run.
Escaped(st) ==
    IF st.thrown = "" THEN st
    ELSE [st EXCEPT !.thrown = "",
                    !.errors = Append(@, [op |-> st.thrown, caught |-> FALSE])]

\* The test without its tolerance: any difference counts.
DivergedExact(liveCenter, target) == liveCenter # target

\* The tolerance test of the reconcile effect.
Diverged(liveCenter, target) ==
    \/ Abs(liveCenter[1] - target[1]) > Tolerance
    \/ Abs(liveCenter[2] - target[2]) > Tolerance

\* useEffect(..., [center, currentCenter]): adopt the prop when it prints
\* differently.  Yields the next currentCenter.
SyncEffect(r) ==
    IF JsonOf(r.center) # JsonOf(r.currentCenter) THEN r.center
    ELSE r.currentCenter

\* A reconciler that does not test the handle.
ReconcileEffectUnguarded(r, st) ==
    IF r.isMounted
    THEN LET seen == [st EXCEPT !.evals =
                        Append(@, [live |-> st.live.center,
                                   liveZoom |-> st.live.zoom,
                                   inFlight |-> st.flight.active,
                                   target |-> r.currentCenter])]
         IN IF Diverged(st.live.center, r.currentCenter.pos)
            THEN Caught(SetView(seen, r.currentCenter))
            ELSE seen
    ELSE st

\* useEffect(..., [currentCenter, isMounted, mapRef]): the reconciler.
ReconcileEffect(r, st) ==
    IF r.isMounted /\ mapRef # 0
    THEN LET seen == [st EXCEPT !.evals =
                        Append(@, [live |-> st.live.center,
                                   liveZoom |-> st.live.zoom,
                                   inFlight |-> st.flight.active,
                                   target |-> r.currentCenter])]
         IN IF Diverged(st.live.center, r.currentCenter.pos)
            THEN Caught(SetView(seen, r.currentCenter))
            ELSE seen
    ELSE st

\* A focus effect that takes a landmark's coordinates as they are.
FocusTargetUnchecked(r) ==
    IF r.selectedUser # NoUser THEN <<UserLocation(r.selectedUser.id)>>
    ELSE IF r.selectedLandmark # NoLandmark
         THEN <<LandmarkPos(r.selectedLandmark.title)>>
         ELSE <<>>

\* The position the focus effect flies to, <<>> when there is none.
FocusTarget(r) ==
    IF r.selectedUser # NoUser THEN <<UserLocation(r.selectedUser.id)>>
    ELSE IF /\ r.selectedLandmark # NoLandmark
            /\ Truthy(LandmarkLat(r.selectedLandmark.title))
            /\ Truthy(LandmarkLng(r.selectedLandmark.title))
         THEN <<LandmarkPos(r.selectedLandmark.title)>>
         ELSE <<>>

\* useEffect(..., [selectedUser, selectedLandmark, isMounted, mapRef]).
FocusEffect(r, st) ==
    IF /\ r.isMounted /\ mapRef # 0
       /\ (r.selectedUser # NoUser \/ r.selectedLandmark # NoLandmark)
       /\ FocusTarget(r) # <<>>
    THEN Caught(FlyTo(st, FocusTarget(r)[1], Max(st.live.zoom, MinFocusZoom)))
    ELSE st

\* The focus effect, with a record of each run that found a widget and a
\* selected entity.
FocusEffectLogged(r, st) ==
    IF /\ r.isMounted /\ mapRef # 0
       /\ (r.selectedUser # NoUser \/ r.selectedLandmark # NoLandmark)
    THEN FocusEffect(r, [st EXCEPT !.focusEvals =
                           Append(@, [liveZoom |-> st.live.zoom,
                                      selectedUser |-> r.selectedUser,
                                      selectedLandmark |-> r.selectedLandmark])])
    ELSE FocusEffect(r, st)

\* A cache keyed by an identifier of the landmark instead of its title.
SummaryKeyById(l) == <<"id", l>>

\* The key under which fetchSummaries stores the summary of landmark l,
\* and the key under which the popup of l looks it up.
SummaryKey(l) == <<"title", l>>
PopupKey(l) == <<"title", l>>

\* cache[k] is truthy: the key is there and its text is not empty.
Cached(cache, k) == k \in DOMAIN cache /\ cache[k] # <<>>

\* A cut that never marks what it left out.
TruncatedUnmarked(d) == SubSeq(d, 1, Min(Len(d), DescriptionCut))

\* description.substring(0, 150) + (description.length > 150 ? '...' : '')
Truncated(d) ==
    SubSeq(d, 1, Min(Len(d), DescriptionCut))
        \o (IF Len(d) > DescriptionCut THEN Ellipsis ELSE <<>>)

\* landmark.description ? ... : 'No description available.'
DescriptionFallback(d) == IF d # <<>> THEN Truncated(d) ELSE NoDescription

\* The text of a landmark popup: landmarkSummaries[landmark.title] || ...
PopupBody(l, cache, d) ==
    IF Cached(cache, PopupKey(l)) THEN cache[PopupKey(l)]
    ELSE DescriptionFallback(d)

\* landmarks.filter(landmark => landmark.lat && landmark.lng)
LandmarkMarkers(r) ==
    IF r.landmarks = 0 THEN {}
    ELSE {l \in SourceLandmarks : Truthy(LandmarkLat(l)) /\ Truthy(LandmarkLng(l))}

\* The Marker elements of a render of MapContainer: one per user, one per
\* landmark that passes the filter.
Markers(r) ==
    {[kind |-> "user", key |-> u, pos |-> UserLocation(u),
      icon |-> "userIcon"] : u \in UserIds}
        \cup {[kind |-> "landmark", key |-> l, pos |-> LandmarkPos(l),
                icon |-> "landmarkIcon"] : l \in LandmarkMarkers(r)}
Popups(r) ==
    [l \in LandmarkMarkers(r) |->
        PopupBody(l, r.landmarkSummaries, LandmarkDescription(l, r.descr))]

\* A first render that renders MapContainer at once, without waiting for
\* the mount effect.
MountConstructing ==
    /\ ~mounted
    /\ instances < MaxMounts
    /\ mounted' = TRUE
    /\ currentCenter' = mapCenter
    /\ isMounted' = TRUE
    /\ mapRef' = 0
    /\ eventsMounted' = FALSE
    /\ rendered' = [Snapshot EXCEPT !.currentCenter = mapCenter,
                                     !.isMounted = FALSE]
    /\ markers' = Markers(Snapshot) /\ popups' = Popups(Snapshot)
    /\ widget' = instances + 1
    /\ instances' = instances + 1
    /\ live' = [center |-> mapCenter.pos, zoom |-> DefaultZoom]
    /\ UNCHANGED <<lateDesired, trigger>>
    /\ NoCalls
    /\ UNCHANGED <<pageVars, removeCount, flight, pendingMoveEnd, widgetFaulty>>

\* The component enters the tree: first render (the placeholder, since
\* isMounted is false) and its effects; the mount effect sets isMounted.
Mount ==
    /\ ~mounted
    /\ instances < MaxMounts
    /\ mounted' = TRUE
    /\ currentCenter' = mapCenter
    /\ isMounted' = TRUE
    /\ mapRef' = 0
    /\ eventsMounted' = FALSE
    /\ rendered' = [Snapshot EXCEPT !.currentCenter = mapCenter,
                                     !.isMounted = FALSE]
    /\ markers' = {} /\ popups' = NoSummaries
    /\ UNCHANGED <<lateDesired, trigger>>
    /\ NoCalls
    /\ UNCHANGED <<pageVars, widgetVars>>

\* A render with changed props or state, followed by the effects whose
\* dependencies changed.  The first render with isMounted true renders
\* MapContainer, which constructs the widget at (currentCenter, 13).
RenderPass ==
    /\ mounted
    /\ rendered # Snapshot
    /\ LET r == Snapshot
           prev == rendered
           constructs == r.isMounted /\ widget = 0
           st0 == IF constructs
                  THEN [WidgetState EXCEPT
                          !.live = [center |-> r.currentCenter.pos,
                                    zoom |-> DefaultZoom]]
                  ELSE WidgetState
           runSync == prev.center # r.center \/ prev.currentCenter # r.currentCenter
           runRecon == prev.currentCenter # r.currentCenter
                       \/ prev.isMounted # r.isMounted
           runFocus == \/ prev.selectedUser # r.selectedUser
                       \/ prev.selectedLandmark # r.selectedLandmark
                       \/ prev.isMounted # r.isMounted
           st1 == IF runRecon THEN Escaped(ReconcileEffect(r, st0)) ELSE st0
           st2 == IF runFocus THEN Escaped(FocusEffectLogged(r, st1)) ELSE st1
       IN /\ currentCenter' = IF runSync THEN SyncEffect(r) ELSE currentCenter
          /\ widget' = IF constructs THEN instances + 1 ELSE widget
          /\ instances' = IF constructs THEN instances + 1 ELSE instances
          /\ live' = st2.live
          /\ flight' = st2.flight
          /\ pendingMoveEnd' = st2.pending
          /\ cmds' = st2.cmds
          /\ evals' = st2.evals
          /\ focusEvals' = st2.focusEvals
          /\ errors' = st2.errors
          /\ moveFailed' = (moveFailed \/ st2.errors # <<>>)
          /\ rendered' = r
          /\ markers' = IF r.isMounted THEN Markers(r) ELSE {}
          /\ popups' = IF r.isMounted THEN Popups(r) ELSE NoSummaries
          /\ lateDesired' =
                IF st1.evals = <<>> THEN lateDesired
                ELSE IF st0.flight.active /\ r.currentCenter.late
                     THEN r.currentCenter.pos
                ELSE IF r.currentCenter.origin = "program" THEN lateDesired
                ELSE <<>>
          /\ trigger' =
                IF \E j \in 1..Len(st2.cmds) : st2.cmds[j].op = "flyTo"
                THEN (IF trigger = "reselect" THEN "reselect" ELSE "flown")
                ELSE TriggerKept
    /\ notes' = <<>> /\ clicks' = <<>>
    /\ UNCHANGED <<pageVars, mounted, isMounted, mapRef, eventsMounted, removeCount,
                   widgetFaulty>>

\* A setMapInstance that ignores null and keeps the handle it holds.
SetMapInstanceKeep(m) == IF m = 0 THEN mapRef ELSE m

\* setMapInstance (useCallback): store the handle.
SetMapInstance(m) == m

\* MapEvents mounts inside the constructed MapContainer; its effect hands
\* the map to the parent.
MapEventsMount ==
    /\ mounted /\ widget # 0 /\ ~eventsMounted
    /\ eventsMounted' = TRUE
    /\ mapRef' = SetMapInstance(widget)
    /\ UNCHANGED <<lateDesired, trigger>>
    /\ NoCalls
    /\ UNCHANGED <<pageVars, mounted, isMounted, currentCenter, rendered,
                   markers, popups, widgetVars>>

\* map.remove(): destroys the widget.
Remove(st) ==
    IF st.faulty THEN [st EXCEPT !.thrown = "remove"] ELSE
    [st EXCEPT !.cmds = Append(@, [op |-> "remove", pos |-> <<0, 0>>, zoom |-> 0])]

\* A teardown that removes the map and leaves the handle as it is.
UnmountKeepingHandle ==
    /\ mounted
    /\ mounted' = FALSE
    /\ LET st == IF mapRef # 0 THEN Remove(WidgetState) ELSE WidgetState
           afterCleanup == IF st.thrown = "" THEN 0 ELSE mapRef
       IN /\ removeCount' = IF st.cmds # <<>>
                            THEN [removeCount EXCEPT ![mapRef] = @ + 1]
                            ELSE removeCount
          /\ cmds' = st.cmds
          /\ errors' = Escaped(st).errors
          /\ UNCHANGED mapRef
    /\ eventsMounted' = FALSE
    /\ isMounted' = FALSE
    /\ currentCenter' = mapCenter
    /\ rendered' = [Snapshot EXCEPT !.currentCenter = mapCenter,
                                     !.isMounted = FALSE]
    /\ markers' = {} /\ popups' = NoSummaries
    /\ widget' = 0
    /\ live' = NoLive
    /\ flight' = NoFlight
    /\ pendingMoveEnd' = {}
    /\ widgetFaulty' = FALSE
    /\ lateDesired' = <<>> /\ trigger' = "other" /\ moveFailed' = FALSE
    /\ evals' = <<>> /\ focusEvals' = <<>> /\ notes' = <<>> /\ clicks' = <<>>
    /\ UNCHANGED <<pageVars, instances>>

\* The component leaves the tree.  The cleanup of the mount effect removes
\* the map the handle refers to and then clears the handle; nothing there
\* catches what remove() throws, so a throw skips the clearing and leaves
\* the cleanup.  MapEvents' cleanup runs after it and clears the handle
\* through setMapInstance.
Unmount ==
    /\ mounted
    /\ mounted' = FALSE
    /\ LET st == IF mapRef # 0 THEN Remove(WidgetState) ELSE WidgetState
           afterCleanup == IF st.thrown = "" THEN 0 ELSE mapRef
       IN /\ removeCount' = IF st.cmds # <<>>
                            THEN [removeCount EXCEPT ![mapRef] = @ + 1]
                            ELSE removeCount
          /\ cmds' = st.cmds
          /\ errors' = Escaped(st).errors
          /\ mapRef' = IF eventsMounted THEN SetMapInstance(0) ELSE afterCleanup
    /\ eventsMounted' = FALSE
    /\ isMounted' = FALSE
    /\ currentCenter' = mapCenter
    /\ rendered' = [Snapshot EXCEPT !.currentCenter = mapCenter,
                                     !.isMounted = FALSE]
    /\ markers' = {} /\ popups' = NoSummaries
    /\ widget' = 0
    /\ live' = NoLive
    /\ flight' = NoFlight
    /\ pendingMoveEnd' = {}
    /\ widgetFaulty' = FALSE
    /\ lateDesired' = <<>> /\ trigger' = "other" /\ moveFailed' = FALSE
    /\ evals' = <<>> /\ focusEvals' = <<>> /\ notes' = <<>> /\ clicks' = <<>>
    /\ UNCHANGED <<pageVars, instances>>

\* The widget starts to fail, or stops failing: while it fails, setView,
\* flyTo and remove throw.
WidgetFault ==
    /\ mounted /\ widget # 0
    /\ widgetFaulty' = ~widgetFaulty
    /\ UNCHANGED <<lateDesired, trigger>>
    /\ NoCalls
    /\ UNCHANGED <<pageVars, compVars, widget, instances, removeCount, live, flight,
                   pendingMoveEnd>>

\* ---------------------------------------------------------- MapEvents
\* The arguments of onMove(map.getCenter()) when the live camera is lv.
OnMoveArgs(lv) == <<lv.center>>

\* A listener that snaps the camera to the default center before it
\* reports.
MoveEndSnapping(o) ==
    /\ mounted /\ eventsMounted
    /\ o \in pendingMoveEnd
    /\ pendingMoveEnd' = pendingMoveEnd \ {o}
    /\ live' = [live EXCEPT !.center = InitCenterPos]
    /\ mapCenter' = ObjCenter(InitCenterPos,
                               IF o = "user" THEN "user" ELSE "program",
                               flight.active)
    /\ notes' = <<[origin |-> o, center |-> InitCenterPos, zoom |-> live.zoom,
                   args |-> OnMoveArgs([live EXCEPT !.center = InitCenterPos])]>>
    /\ UNCHANGED <<lateDesired, trigger>>
    /\ cmds' = <<[op |-> "setView", pos |-> InitCenterPos, zoom |-> live.zoom]>>
    /\ evals' = <<>> /\ focusEvals' = <<>> /\ clicks' = <<>>
    /\ errors' = <<>> /\ UNCHANGED moveFailed
    /\ UNCHANGED <<selectedUser, selectedLandmark, users, toggles,
                   landmarksGen, fetchPending, fetches, summaryVars,
                   compVars, widget, instances, removeCount, flight,
                   widgetFaulty>>

\* A listener that reports a center two tolerances north of the live one.
MoveEndShifted(o) ==
    /\ mounted /\ eventsMounted
    /\ o \in pendingMoveEnd
    /\ pendingMoveEnd' = pendingMoveEnd \ {o}
    /\ mapCenter' = ObjCenter(<<live.center[1] + 2 * Tolerance, live.center[2]>>,
                               IF o = "user" THEN "user" ELSE "program",
                               flight.active)
    /\ notes' = <<[origin |-> o, center |-> live.center, zoom |-> live.zoom,
                   args |-> OnMoveArgs(live)]>>
    /\ UNCHANGED <<lateDesired, trigger>>
    /\ cmds' = <<>> /\ evals' = <<>> /\ focusEvals' = <<>> /\ clicks' = <<>>
    /\ errors' = <<>> /\ UNCHANGED moveFailed
    /\ UNCHANGED <<selectedUser, selectedLandmark, users, toggles,
                   landmarksGen, fetchPending, fetches, summaryVars,
                   compVars, widget, instances, removeCount, live, flight,
                   widgetFaulty>>

\* moveend: () => { if (map) onMove(map.getCenter()) }, with the page's
\* handleMapMove as onMove: the reported center becomes the desired one.
MoveEnd(o) ==
    /\ mounted /\ eventsMounted
    /\ o \in pendingMoveEnd
    /\ pendingMoveEnd' = pendingMoveEnd \ {o}
    /\ mapCenter' = ObjCenter(live.center,
                               IF o = "user" THEN "user" ELSE "program",
                               flight.active)
    /\ notes' = <<[origin |-> o, center |-> live.center, zoom |-> live.zoom,
                   args |-> OnMoveArgs(live)]>>
    /\ UNCHANGED <<lateDesired, trigger>>
    /\ cmds' = <<>> /\ evals' = <<>> /\ focusEvals' = <<>> /\ clicks' = <<>>
    /\ errors' = <<>> /\ UNCHANGED moveFailed
    /\ UNCHANGED <<selectedUser, selectedLandmark, users, toggles,
                   landmarksGen, fetchPending, fetches, summaryVars,
                   compVars, widget, instances, removeCount, live, flight,
                   widgetFaulty>>

\* ------------------------------------------------- the user at the map
\* Gestures are taken once MapEvents listens; each ends with moveend.
UserPan(p) ==
    /\ mounted /\ widget # 0 /\ eventsMounted
    /\ p # live.center
    /\ live' = [live EXCEPT !.center = p]
    /\ flight' = NoFlight
    /\ pendingMoveEnd' = pendingMoveEnd \cup {"user"}
    /\ lateDesired' = <<>> /\ UNCHANGED trigger
    /\ NoCalls
    /\ UNCHANGED <<pageVars, compVars, widget, instances, removeCount, widgetFaulty>>

UserZoom(z) ==
    /\ mounted /\ widget # 0 /\ eventsMounted
    /\ z # live.zoom
    /\ live' = [live EXCEPT !.zoom = z]
    /\ flight' = NoFlight
    /\ pendingMoveEnd' = pendingMoveEnd \cup {"user"}
    /\ lateDesired' = <<>> /\ UNCHANGED trigger
    /\ NoCalls
    /\ UNCHANGED <<pageVars, compVars, widget, instances, removeCount, widgetFaulty>>

\* The flyTo animation reaches its target and raises moveend.
FlightEnd ==
    /\ mounted /\ widget # 0
    /\ flight.active
    /\ live' = [center |-> flight.pos, zoom |-> flight.zoom]
    /\ flight' = NoFlight
    /\ pendingMoveEnd' = pendingMoveEnd \cup {"flyTo"}
    /\ UNCHANGED <<lateDesired, trigger>>
    /\ NoCalls
    /\ UNCHANGED <<pageVars, compVars, widget, instances, removeCount, widgetFaulty>>

\* ------------------------------------------------------------ page Home
\* handleMarkerClick, 'location' in item: a marker or a sidebar entry of
\* user u is clicked; the item is u's object in `users`.
MarkerClickUser(u) ==
    /\ selectedUser' = [id |-> u, ver |-> users[u], kind |-> "list"]
    /\ selectedLandmark' = NoLandmark
    /\ mapCenter' = ArrCenter(UserLocation(u), "click", flight.active)
    /\ lateDesired' = <<>>
    /\ trigger' = TriggerAfter(selectedUser.id = u /\ Focused(UserLocation(u)))
    /\ NoCalls
    /\ UNCHANGED <<users, toggles, landmarksGen, fetchPending, fetches,
                   summaryVars, compVars, widgetVars>>

\* A landmark branch that forgets to clear the selected user.
MarkerClickLandmarkKeepingUser(l) ==
    /\ landmarksGen > 0
    /\ selectedLandmark' = [title |-> l, gen |-> landmarksGen]
    /\ mapCenter' = IF Truthy(LandmarkLat(l)) /\ Truthy(LandmarkLng(l))
                    THEN ArrCenter(LandmarkPos(l), "click", flight.active)
                    ELSE mapCenter
    /\ lateDesired' = <<>>
    /\ trigger' = TriggerAfter(selectedLandmark.title = l /\ Focused(LandmarkPos(l)))
    /\ NoCalls
    /\ UNCHANGED <<selectedUser, users, toggles, landmarksGen, fetchPending, fetches,
                   summaryVars, compVars, widgetVars>>

\* handleMarkerClick, the landmark branch.
MarkerClickLandmark(l) ==
    /\ landmarksGen > 0
    /\ selectedLandmark' = [title |-> l, gen |-> landmarksGen]
    /\ selectedUser' = NoUser
    /\ mapCenter' = IF Truthy(LandmarkLat(l)) /\ Truthy(LandmarkLng(l))
                    THEN ArrCenter(LandmarkPos(l), "click", flight.active)
                    ELSE mapCenter
    /\ lateDesired' = <<>>
    /\ trigger' = TriggerAfter(selectedLandmark.title = l /\ Focused(LandmarkPos(l)))
    /\ NoCalls
    /\ UNCHANGED <<users, toggles, landmarksGen, fetchPending, fetches,
                   summaryVars, compVars, widgetVars>>

\* An item handed on as a copy of the entity's object.
ClickedItemCopy(m) ==
    IF m.kind = "user"
    THEN [id |-> m.key, ver |-> users[m.key], kind |-> "copy"]
    ELSE [title |-> m.key, gen |-> rendered.landmarks + 1]

\* click: () => onMarkerClick(user) and click: () => onMarkerClick(landmark):
\* the handler of marker m passes the list's own object.
ClickedItem(m) ==
    IF m.kind = "user"
    THEN [id |-> m.key, ver |-> users[m.key], kind |-> "list"]
    ELSE [title |-> m.key, gen |-> rendered.landmarks]

\* A click on the rendered marker m: its handler calls onMarkerClick, which
\* is the page's handleMarkerClick.
MarkerClick(m) ==
    /\ mounted /\ widget # 0
    /\ m \in markers
    /\ LET item == ClickedItem(m)
           pos == IF m.kind = "user" THEN UserLocation(m.key) ELSE LandmarkPos(m.key)
           again == IF m.kind = "user" THEN selectedUser.id = m.key
                    ELSE selectedLandmark.title = m.key
       IN /\ clicks' = <<[marker |-> [kind |-> m.kind, key |-> m.key], item |-> item]>>
          /\ selectedUser' = IF "id" \in DOMAIN item THEN item ELSE NoUser
          /\ selectedLandmark' = IF "title" \in DOMAIN item THEN item ELSE NoLandmark
          /\ mapCenter' = IF \/ "id" \in DOMAIN item
                             \/ Truthy(LandmarkLat(m.key)) /\ Truthy(LandmarkLng(m.key))
                          THEN ArrCenter(pos, "click", flight.active)
                          ELSE mapCenter
          /\ trigger' = TriggerAfter(again /\ Focused(pos))
    /\ lateDesired' = <<>>
    /\ cmds' = <<>> /\ evals' = <<>> /\ focusEvals' = <<>> /\ notes' = <<>>
    /\ errors' = <<>> /\ UNCHANGED moveFailed
    /\ UNCHANGED <<users, toggles, landmarksGen, fetchPending, fetches,
                   summaryVars, compVars, widgetVars>>

\* The close button of the overlay card.
CloseSelection ==
    /\ selectedUser # NoUser \/ selectedLandmark # NoLandmark
    /\ selectedUser' = NoUser
    /\ selectedLandmark' = NoLandmark
    /\ lateDesired' = <<>> /\ trigger' = TriggerAfter(FALSE)
    /\ NoCalls
    /\ UNCHANGED <<mapCenter, users, toggles, landmarksGen, fetchPending, fetches,
                   summaryVars, compVars, widgetVars>>

\* handleFollowToggle: u's object in `users` is replaced by a copy with
\* the flag flipped, and so is selectedUser when it is u.
handleFollowToggle(u) ==
    /\ toggles < MaxToggles
    /\ toggles' = toggles + 1
    /\ users' = [users EXCEPT ![u] = @ + 1]
    /\ selectedUser' = IF selectedUser.id = u
                       THEN [id |-> u, ver |-> selectedUser.ver + 1, kind |-> "copy"]
                       ELSE selectedUser
    /\ lateDesired' = <<>> /\ trigger' = TriggerKept
    /\ NoCalls
    /\ UNCHANGED <<mapCenter, selectedLandmark, landmarksGen, fetchPending, fetches,
                   summaryVars, compVars, widgetVars>>

\* fetchLandmarks up to its await: the list and the summaries are cleared
\* and the request to the landmark source goes out.
FetchLandmarksStart ==
    /\ fetches < MaxFetches
    /\ fetchPending = {}
    /\ fetches' = fetches + 1
    /\ fetchPending' = {[call |-> fetches + 1, closure |-> landmarkSummaries]}
    /\ landmarksGen' = 0
    /\ descr' = <<>>
    /\ landmarkSummaries' = NoSummaries
    /\ summariesRef' = summariesRef + 1
    /\ fetchClosure' = landmarkSummaries
    /\ outcome' = [l \in SourceLandmarks |-> "none"]
    /\ UNCHANGED <<summaryBatches, fetchEffectDeps, lateDesired, trigger>>
    /\ NoCalls
    /\ UNCHANGED <<mapCenter, selectedUser, selectedLandmark, users, toggles,
                   compVars, widgetVars>>

\* useEffect(() => { fetchLandmarks(mapCenter) }, [fetchLandmarks, mapCenter]):
\* runs after a render in which a dependency differs from the last run.
\* fetchLandmarks is a useCallback over [toast, landmarkSummaries] and toast
\* is stable, so its identity is that of the landmarkSummaries object.  The
\* effect does not wait for a call already awaiting its answer.
FetchEffect ==
    /\ fetches < MaxEffectRuns
    /\ fetchEffectDeps # <<summariesRef, mapCenter>>
    /\ fetchEffectDeps' = <<summariesRef, mapCenter>>
    /\ fetches' = fetches + 1
    /\ fetchPending' = fetchPending \cup
                          {[call |-> fetches + 1, closure |-> landmarkSummaries]}
    /\ landmarksGen' = 0
    /\ descr' = <<>>
    /\ landmarkSummaries' = NoSummaries
    /\ summariesRef' = summariesRef + 1
    /\ fetchClosure' = landmarkSummaries
    /\ outcome' = [l \in SourceLandmarks |-> "none"]
    /\ UNCHANGED <<summaryBatches, lateDesired, trigger>>
    /\ NoCalls
    /\ UNCHANGED <<mapCenter, selectedUser, selectedLandmark, users, toggles,
                   compVars, widgetVars>>

\* getLandmarks resolves: the page holds a list of fresh landmark objects
\* ("lmA" described by d), and fetchSummaries is called for the landmarks
\* the call saw no summary for.
FetchLandmarksResolve(d) ==
    /\ \E c \in fetchPending :
          /\ fetchPending' = fetchPending \ {c}
          /\ landmarksGen' = c.call
          /\ LET summariesToFetchFor ==
                     {l \in SourceLandmarks : ~Cached(c.closure, SummaryKey(l))}
             IN summaryBatches' = IF summariesToFetchFor # {}
                                  THEN summaryBatches \cup {summariesToFetchFor}
                                  ELSE summaryBatches
    /\ descr' = d
    /\ UNCHANGED <<landmarkSummaries, fetchClosure, outcome, summariesRef,
                   fetchEffectDeps, lateDesired, trigger>>
    /\ NoCalls
    /\ UNCHANGED <<mapCenter, selectedUser, selectedLandmark, users, toggles, fetches,
                   compVars, widgetVars>>

\* What fetchSummaries stores for l when its request ended as `o`.
SummaryStored(l, o) ==
    IF o = "summary" THEN SummaryOf(l)
    ELSE IF o = "empty" THEN <<>>
    ELSE SummaryUnavailable

\* { ...prev, ...new }
Merged(prev, new) ==
    [k \in DOMAIN prev \cup DOMAIN new |-> IF k \in DOMAIN new THEN new[k] ELSE prev[k]]

\* fetchSummaries after its Promise.all: every request of the batch b has
\* ended, as out[l] for landmark l, and the results are merged into the
\* cache.
FetchSummariesResolve(b, out) ==
    /\ b \in summaryBatches
    /\ summaryBatches' = summaryBatches \ {b}
    /\ LET newSummaries ==
               [k \in {SummaryKey(l) : l \in b} |->
                   LET l == CHOOSE x \in b : SummaryKey(x) = k
                   IN SummaryStored(l, out[l])]
       IN landmarkSummaries' = Merged(landmarkSummaries, newSummaries)
    /\ summariesRef' = summariesRef + 1
    /\ outcome' = [l \in SourceLandmarks |-> IF l \in b THEN out[l] ELSE outcome[l]]
    /\ UNCHANGED <<descr, fetchClosure, fetchEffectDeps, lateDesired, trigger>>
    /\ NoCalls
    /\ UNCHANGED <<mapCenter, selectedUser, selectedLandmark, users, toggles,
                   landmarksGen, fetchPending, fetches, compVars, widgetVars>>

\* The camera of the mounted view: pans, notifications, clicks on the
\* user's marker and render passes.
Next ==
    \/ Mount
    \/ RenderPass
    \/ MapEventsMount
    \/ \E o \in {"user", "setView", "flyTo"} : MoveEnd(o)
    \/ \E p \in PanPoints : UserPan(p)
    \/ FlightEnd
    \/ \E u \in UserIds : MarkerClickUser(u)
    \/ CloseSelection

Spec == Init /\ [][Next]_vars

\* Selection in the mounted view: users and landmarks are selected,
\* closed, followed and refetched.
NextSelection ==
    \/ Mount
    \/ RenderPass
    \/ MapEventsMount
    \/ \E o \in {"setView", "flyTo"} : MoveEnd(o)
    \/ FlightEnd
    \/ \E u \in UserIds : MarkerClickUser(u)
    \/ \E l \in LandmarkTitles : MarkerClickLandmark(l)
    \/ CloseSelection
    \/ \E u \in UserIds : handleFollowToggle(u)
    \/ FetchLandmarksStart
    \/ FetchLandmarksResolve(Chars(3))

SpecSelection == Init /\ [][NextSelection]_vars

\* The lifecycle: mounts and unmounts of the view, with the page events
\* that can fall between them.
NextLifecycle ==
    \/ Mount
    \/ RenderPass
    \/ MapEventsMount
    \/ Unmount
    \/ \E o \in {"user", "setView", "flyTo"} : MoveEnd(o)
    \/ \E z \in ZoomLevels : UserZoom(z)
    \/ FlightEnd
    \/ \E u \in UserIds : MarkerClickUser(u)
    \/ CloseSelection

SpecLifecycle == Init /\ [][NextLifecycle]_vars

\* The landmarks of the view: the list is fetched and described, its
\* summaries are requested and stored, and the markers and their popups
\* are rendered.
NextLandmarks ==
    \/ Mount
    \/ RenderPass
    \/ MapEventsMount
    \/ FetchLandmarksStart
    \/ \E d \in Descriptions : FetchLandmarksResolve(d)
    \/ \E b \in summaryBatches : \E out \in [b -> Outcomes] :
           FetchSummariesResolve(b, out)

SpecLandmarks == Init /\ [][NextLandmarks]_vars

\* Focus on landmarks: landmarks of a fetched list, with and without
\* coordinates, are selected and closed in the mounted view.
NextFocus ==
    \/ Mount
    \/ RenderPass
    \/ MapEventsMount
    \/ \E o \in {"setView", "flyTo"} : MoveEnd(o)
    \/ FlightEnd
    \/ \E l \in {"lmA", "lmNoPos"} : MarkerClickLandmark(l)
    \/ CloseSelection
    \/ FetchLandmarksStart
    \/ FetchLandmarksResolve(Chars(3))

SpecFocus == Init /\ [][NextFocus]_vars

\* The failing widget: the view is mounted and unmounted, the camera is
\* moved by clicks and pans, and the widget's methods throw at times.
NextFaults ==
    \/ Mount
    \/ RenderPass
    \/ MapEventsMount
    \/ Unmount
    \/ WidgetFault
    \/ \E o \in {"user", "setView", "flyTo"} : MoveEnd(o)
    \/ \E p \in {<<700, 700>>} : UserPan(p)
    \/ FlightEnd
    \/ \E u \in UserIds : MarkerClickUser(u)

SpecFaults == Init /\ [][NextFaults]_vars

\* The page's selection: markers and sidebar entries are clicked, the
\* overlay card is closed, users are followed and unfollowed, and the
\* landmark list is fetched, with the view rendering what results.
NextPage ==
    \/ Mount
    \/ RenderPass
    \/ \E u \in UserIds : MarkerClickUser(u)
    \/ \E l \in SourceLandmarks : MarkerClickLandmark(l)
    \/ CloseSelection
    \/ \E u \in UserIds : handleFollowToggle(u)
    \/ FetchLandmarksStart
    \/ FetchLandmarksResolve(Chars(3))

SpecPage == Init /\ [][NextPage]_vars

\* Landmark loading of the page: the fetch effect, the answers of the
\* landmark source and of the summariser, and clicks that change the map
\* center.
NextFetch ==
    \/ FetchEffect
    \/ FetchLandmarksResolve(Chars(3))
    \/ \E b \in summaryBatches : \E out \in [b -> {"summary", "fail"}] :
           FetchSummariesResolve(b, out)
    \/ \E u \in UserIds : MarkerClickUser(u)
    \/ CloseSelection

SpecFetch == Init /\ [][NextFetch]_vars

\* The markers of the map: clicks on rendered markers, with the events of
\* the component around them (renders, moveend reports of the reconciler's
\* moves, landmark lists and summaries arriving).
NextMarkers ==
    \/ Mount
    \/ RenderPass
    \/ MapEventsMount
    \/ \E m \in markers : MarkerClick(m)
    \/ MoveEnd("setView")
    \/ FetchLandmarksStart
    \/ FetchLandmarksResolve(Chars(3))
    \/ \E b \in summaryBatches : FetchSummariesResolve(b, [l \in b |-> "summary"])

SpecMarkers == Init /\ [][NextMarkers]_vars

\* The feedback loop in isolation: the page and the user act only while the
\* component is at rest, so each external change runs its course (renders,
\* moves, moveend reports and their adoption by handleMapMove) alone.  React
\* runs every scheduled render and Leaflet delivers every moveend and ends
\* every animation, hence the fairness of these steps.
Quiescent ==
    /\ mounted => rendered = Snapshot
    /\ pendingMoveEnd = {}
    /\ ~flight.active

Reaction ==
    \/ RenderPass
    \/ \E o \in {"user", "setView", "flyTo"} : MoveEnd(o)
    \/ FlightEnd

NextFeedback ==
    \/ Quiescent /\ Mount
    \/ Quiescent /\ Unmount
    \/ MapEventsMount
    \/ Reaction
    \/ \E p \in PanPoints : Quiescent /\ UserPan(p)
    \/ \E u \in UserIds : Quiescent /\ MarkerClickUser(u)
    \/ Quiescent /\ CloseSelection

SpecFeedback == Init /\ [][NextFeedback]_vars /\ WF_vars(Reaction)


\* ================================================================ claims
SetViews == {j \in 1..Len(cmds) : cmds[j].op = "setView"}
FlyTos == {j \in 1..Len(cmds) : cmds[j].op = "flyTo"}

\* C1: no-jitter.  Whenever the reconciler compares a desired center whose
\* latitude and longitude are both within 1e-5 degree of the live center,
\* it issues no setView.
C1_NoJitter ==
    \A i \in 1..Len(evals) :
        WithinTolerance(evals[i].live, evals[i].target.pos) => SetViews = {}

\* The reconciler compared a desired center that differs from the live
\* center by less than the tolerance, and did not move.
C1_Witness ==
    \E i \in 1..Len(evals) :
        /\ WithinTolerance(evals[i].live, evals[i].target.pos)
        /\ evals[i].live # evals[i].target.pos
        /\ SetViews = {}

\* C2: a desired camera outside tolerance of the live camera causes
\* exactly one immediate move, and that move targets the desired camera:
\* the desired center that was compared, at the zoom the component asks
\* for (the only one it states, zoom={13}).
C2_ExactlyOneMoveToDesired ==
    \A i \in 1..Len(evals) :
        ~WithinTolerance(evals[i].live, evals[i].target.pos) =>
            /\ Cardinality(SetViews) = 1
            /\ \A j \in SetViews : /\ cmds[j].pos = evals[i].target.pos
                                   /\ cmds[j].zoom = DefaultZoom

\* C3: with the page adopting every reported camera, the reconciler never
\* issues a move towards a center that a user gesture reported.
C3_NoSnapBack ==
    \A i \in 1..Len(evals) :
        evals[i].target.origin = "user" => SetViews = {}

\* C4: a desired center that arrived and was compared while a flyTo was in
\* flight is not dropped: with no user input since, once the animation is
\* over, every notification is delivered and no render is pending, the live
\* center is within tolerance of it.
C4_LateDesiredReconciled ==
    (/\ lateDesired # <<>>
     /\ ~flight.active /\ pendingMoveEnd = {} /\ rendered = Snapshot)
        => WithinTolerance(live.center, lateDesired)

\* C5: onMove is invoked for user gestures only, never for a move the
\* component issued itself.
C5_OnlyUserMovesReported ==
    \A i \in 1..Len(notes) : notes[i].origin = "user"

\* C6: re-selecting the selected, already focused entity issues no
\* animated move.
C6_ReselectNoFly ==
    trigger = "reselect" => FlyTos = {}

\* The position of the entity a focus effect ran for.
EntityPosition(f) ==
    IF f.selectedUser # NoUser THEN UserLocation(f.selectedUser.id)
    ELSE LandmarkPos(f.selectedLandmark.title)

\* C7: when the focus effect runs with the widget ready for a selected
\* user or landmark with a Position, exactly one flyTo is issued, to that
\* Position with zoom max(live zoom, 15).
C7_FocusTarget ==
    \A i \in 1..Len(focusEvals) :
        /\ Cardinality(FlyTos) = 1
        /\ \A j \in FlyTos :
              /\ cmds[j].pos = EntityPosition(focusEvals[i])
              /\ cmds[j].zoom = Max(focusEvals[i].liveZoom, MinFocusZoom)

\* C8: at most one widget instance exists for the mounted view, and every
\* instance of a view that was unmounted has been removed exactly once.
C8_SingleWidgetDestroyedOnce ==
    /\ \A i \in 1..instances : i # widget => removeCount[i] = 1
    /\ widget # 0 => (mounted /\ removeCount[widget] = 0)

\* C9: after deactivation the handle is null, also when the view is
\* unmounted before the widget was reported ready; a handle that is set
\* refers to the instance constructed last, which has not been removed.
C9_HandleClearedThenFresh ==
    /\ ~mounted => mapRef = 0
    /\ mapRef # 0 => (mapRef = instances /\ removeCount[mapRef] = 0)

\* The first view was unmounted before its widget was reported ready (its
\* instance was never removed through the handle), and the second view's
\* handle refers to the second instance.
C9_Witness ==
    /\ instances = 2 /\ mapRef = 2 /\ removeCount[1] = 0 /\ removeCount[2] = 0

\* C10: a desired camera whose center is within tolerance of the live
\* center while the live zoom differs from the desired (default) zoom is
\* treated as diverged: the reconciler issues a setView.
C10_ZoomDivergenceMoves ==
    \A i \in 1..Len(evals) :
        (/\ WithinTolerance(evals[i].live, evals[i].target.pos)
         /\ evals[i].liveZoom # DefaultZoom) => SetViews # {}

\* C11: once the summary source has resolved a summary (a text that is not
\* empty) for a landmark and a render has seen the updated cache, the
\* popup of that landmark's marker shows that summary, not the description
\* fallback: the entry fetchSummaries wrote is the entry the popup reads.
C11_SummaryVisible ==
    \A l \in DOMAIN popups :
        (outcome[l] = "summary" /\ rendered.landmarkSummaries = landmarkSummaries)
            => popups[l] = SummaryOf(l)

\* The marker of "lmA", whose description is longer than the cut, is
\* rendered with the summary that was resolved and cached for it.
C11_Witness ==
    /\ "lmA" \in DOMAIN popups
    /\ outcome["lmA"] = "summary"
    /\ rendered.landmarkSummaries = landmarkSummaries
    /\ rendered.descr = Chars(DescriptionCut + 1)
    /\ popups["lmA"] = SummaryOf("lmA")

\* C12: when the summary request for a landmark has failed, no text is
\* stored for it in the summary cache, and once a render has seen the
\* cache, the popup of its marker shows the description fallback (the
\* description cut at 150 characters, or the placeholder).
C12_FailureFallsBack ==
    \A l \in SourceLandmarks :
        outcome[l] = "fail" =>
            /\ SummaryKey(l) \notin DOMAIN landmarkSummaries
            /\ (l \in DOMAIN popups /\ rendered.landmarkSummaries = landmarkSummaries)
                  => popups[l] = DescriptionFallback(LandmarkDescription(l, rendered.descr))

\* C13, as amended: the popup text of every landmark marker is the cached
\* summary if a summary that is not empty is cached for the landmark;
\* otherwise, if the description is not empty, its first 150 characters,
\* followed by the ellipsis exactly when the description is longer than
\* 150 characters; otherwise the placeholder.
C13_PopupBody ==
    \A l \in DOMAIN popups :
        LET cache == rendered.landmarkSummaries
            d == LandmarkDescription(l, rendered.descr)
        IN popups[l] =
              IF PopupKey(l) \in DOMAIN cache /\ cache[PopupKey(l)] # <<>>
              THEN cache[PopupKey(l)]
              ELSE IF d # <<>>
                   THEN IF Len(d) > DescriptionCut
                        THEN SubSeq(d, 1, DescriptionCut) \o <<".", ".", ".">>
                        ELSE d
              ELSE <<"No description available.">>

\* The marker of "lmA" is rendered with no summary cached for it and a
\* description of 151 characters: its popup shows the first 150 and the
\* ellipsis.
C13_Witness ==
    /\ "lmA" \in DOMAIN popups
    /\ PopupKey("lmA") \notin DOMAIN rendered.landmarkSummaries
    /\ Len(rendered.descr) = DescriptionCut + 1
    /\ popups["lmA"] = SubSeq(rendered.descr, 1, DescriptionCut) \o <<".", ".", ".">>

\* C13, as claimed: the popup text is the cached summary whenever the
\* cache holds an entry for the landmark, and the description fallback or
\* the placeholder only when it holds none.
C13_PopupBodyAsClaimed ==
    \A l \in DOMAIN popups :
        LET cache == rendered.landmarkSummaries
            d == LandmarkDescription(l, rendered.descr)
        IN popups[l] =
              IF PopupKey(l) \in DOMAIN cache
              THEN cache[PopupKey(l)]
              ELSE IF d # <<>>
                   THEN IF Len(d) > DescriptionCut
                        THEN SubSeq(d, 1, DescriptionCut) \o <<".", ".", ".">>
                        ELSE d
              ELSE <<"No description available.">>

\* The landmarks of the list the last render saw.
RenderedList == IF rendered.landmarks = 0 THEN {} ELSE SourceLandmarks

\* C14: in every render of the map, the landmarks rendered as markers are
\* exactly the landmarks of the list that have a Position (latitude and
\* longitude both present and in range); each has one marker, with the
\* landmark icon.
C14_LandmarkMarkerSet ==
    rendered.isMounted =>
        /\ {m.key : m \in {x \in markers : x.kind = "landmark"}}
              = {l \in RenderedList : HasPosition(l)}
        /\ \A l \in RenderedList :
              HasPosition(l) =>
                 /\ Cardinality({m \in markers : m.kind = "landmark" /\ m.key = l}) = 1
                 /\ \A m \in markers :
                       (m.kind = "landmark" /\ m.key = l) => m.icon = "landmarkIcon"

\* C15: in every render of the map, no marker is rendered at coordinates
\* that are missing or out of range, and every user and every landmark
\* with a Position has its marker.
C15_InvalidPositionsSkipped ==
    rendered.isMounted =>
        /\ \A m \in markers :
              /\ InRange(m.pos)
              /\ m.kind = "landmark" => HasLatLng(m.key)
        /\ \A u \in UserIds : \E m \in markers : m.kind = "user" /\ m.key = u
        /\ \A l \in RenderedList :
              HasPosition(l) => \E m \in markers : m.kind = "landmark" /\ m.key = l

\* The focus effect ran for a landmark that has no coordinates.
NoPositionFocus(f) == f.selectedUser = NoUser /\ ~HasLatLng(f.selectedLandmark.title)

\* C16: selecting an entity without coordinates is a no-op for the camera.
\* The selection handler leaves the desired center as it is, and a pass
\* whose focus effect runs for such an entity, and whose reconciler has
\* nothing to compare, issues no widget call and leaves the live camera and
\* a running animation untouched.
C16_NoPositionNoMove ==
    [][/\ (selectedLandmark' # selectedLandmark /\ selectedLandmark' # NoLandmark
              /\ ~HasLatLng(selectedLandmark'.title))
            => (mapCenter' = mapCenter /\ cmds' = <<>>
                  /\ live' = live /\ flight' = flight)
       /\ (evals' = <<>> /\ focusEvals' # <<>>
              /\ \A i \in 1..Len(focusEvals') : NoPositionFocus(focusEvals'[i]))
            => (cmds' = <<>> /\ live' = live /\ flight' = flight)]_vars

\* The focus effect has run, with the widget ready, for the selected
\* landmark without coordinates, and the pass issued no widget call.
C16_Witness ==
    /\ focusEvals # <<>>
    /\ \A i \in 1..Len(focusEvals) : NoPositionFocus(focusEvals[i])
    /\ selectedLandmark.title = "lmNoPos"
    /\ mapRef # 0 /\ evals = <<>> /\ cmds = <<>>

\* C17: while the handle is null (the widget has not been reported, or the
\* view was torn down), a desired-camera change or a selection change
\* makes the effects do nothing: no comparison against the widget, no
\* setView, no flyTo.
C17_NotReadyNoOp ==
    mapRef = 0 => (SetViews = {} /\ FlyTos = {} /\ evals = <<>> /\ focusEvals = <<>>)

\* In the second view, after the first was torn down, a pass has rendered
\* the map with a user selected and the handle still null, and called
\* nothing.
C17_Witness ==
    /\ mounted /\ instances = 2 /\ mapRef = 0
    /\ rendered = Snapshot /\ rendered.isMounted
    /\ selectedUser # NoUser
    /\ cmds = <<>>

\* C18: when setView or flyTo throws, the component catches and logs the
\* exception; the pass leaves the desired center and the selection as the
\* page set them; and after a failed move the reconciler still attempts a
\* setView whenever it compares a desired center outside the tolerance.
C18_MoveFailureContained ==
    /\ \A i \in 1..Len(errors) :
          errors[i].op \in {"setView", "flyTo"} => errors[i].caught
    /\ (\E i \in 1..Len(errors) : errors[i].op \in {"setView", "flyTo"})
          => /\ rendered.center = mapCenter
             /\ rendered.selectedUser = selectedUser
             /\ rendered.selectedLandmark = selectedLandmark
    /\ (moveFailed /\ \E i \in 1..Len(evals) :
                         ~WithinTolerance(evals[i].live, evals[i].target.pos))
          => \/ SetViews # {}
             \/ \E i \in 1..Len(errors) : errors[i].op = "setView"

\* After a move of this view has thrown, a later pass compared a desired
\* center outside the tolerance and its setView went through.
C18_Witness ==
    /\ moveFailed /\ errors = <<>>
    /\ \E i \in 1..Len(evals) : ~WithinTolerance(evals[i].live, evals[i].target.pos)
    /\ SetViews # {}

\* C19: when remove() throws during the teardown, the component catches
\* and logs the exception, and the handle is null once the view is gone.
C19_TeardownFailureContained ==
    /\ \A i \in 1..Len(errors) : errors[i].op = "remove" => errors[i].caught
    /\ ~mounted => mapRef = 0

\* C20: the moveend listener is read-only towards the widget.  The step
\* that handles a notification calls no widget method, leaves the live
\* camera and a running animation alone, changes neither the component's
\* desired center nor the selection, and reports the live center.
C20_ListenerReadOnly ==
    [][notes' # <<>> =>
          /\ cmds' = <<>>
          /\ live' = live /\ flight' = flight
          /\ currentCenter' = currentCenter
          /\ selectedUser' = selectedUser /\ selectedLandmark' = selectedLandmark
          /\ \A i \in 1..Len(notes') : notes'[i].center = live.center]_vars

\* The listener has reported the end of a user's pan.
C20_Witness ==
    /\ notes # <<>>
    /\ notes[1].origin = "user"
    /\ notes[1].center = live.center
    /\ cmds = <<>>

\* C21: the step that handles the moveend of a user gesture (a pan, or a
\* zoom that leaves the center where it was) invokes onMove exactly once,
\* with the live center and the live zoom.
C21_GestureReported ==
    \A i \in 1..Len(notes) :
        notes[i].origin = "user" =>
            /\ Len(notes) = 1
            /\ notes[i].args = <<live.center, live.zoom>>

\* C22: at most one of selectedUser and selectedLandmark is set, whatever
\* the clicks, follow toggles and close actions that came before.
C22_SelectionExclusive ==
    selectedUser = NoUser \/ selectedLandmark = NoLandmark

\* A landmark is selected and no user is, after a user had been selected
\* and followed: its object in `users` was replaced and the last render
\* saw it selected.
C22_Witness ==
    /\ selectedLandmark # NoLandmark /\ selectedUser = NoUser
    /\ users["u1"] > 0
    /\ rendered.selectedUser.kind = "copy"

C25_ClickEndsCloseUp ==
    (/\ mapRef # 0 /\ rendered = Snapshot
     /\ ~flight.active /\ pendingMoveEnd = {}
     /\ trigger = "flown"
     /\ selectedLandmark # NoLandmark
     /\ FocusTarget(rendered) # <<>>)
    => /\ WithinTolerance(live.center, LandmarkPos(selectedLandmark.title))
       /\ live.zoom >= MinFocusZoom

\* C26: with every moveend reported and every report adopted as the desired
\* center, the reconciler moves only for a desired center that came from
\* outside (the initial one, a click, a user gesture), never for the report
\* of a move the component made itself; each desired center is compared
\* once, so an external change causes at most one setView.  And the
\* reaction to a change always ends: the component comes to rest, with
\* nothing to render, no moveend due and no animation running.
C26_FeedbackQuiesces ==
    /\ [](\A j \in SetViews :
             /\ Cardinality(SetViews) = 1
             /\ \E i \in 1..Len(evals) :
                   /\ evals[i].target.pos = cmds[j].pos
                   /\ evals[i].target.origin # "program")
    /\ []<>Quiescent

\* At rest after a reconciler move: its moveend was reported, the page
\* adopted the report, and the comparison of the adopted center with the
\* live one has just found nothing to do.
C26_Witness ==
    /\ Quiescent /\ mapRef # 0
    /\ mapCenter.origin = "program" /\ currentCenter = mapCenter
    /\ live.center = mapCenter.pos
    /\ evals # <<>> /\ cmds = <<>>
    /\ trigger = "flown" /\ live.zoom < MinFocusZoom

\* C27: a render whose only news is the selected user's object replaced by
\* handleFollowToggle (same user, flag flipped) issues no move, animated or
\* immediate.
C27_ToggleMovesNothing ==
    [][(/\ mounted /\ mounted'
        /\ rendered # Snapshot
        /\ [rendered EXCEPT !.selectedUser = selectedUser] = Snapshot
        /\ selectedUser.kind = "copy"
        /\ rendered.selectedUser.id = selectedUser.id
        /\ rendered' = Snapshot)
       => cmds' = <<>>]_vars

\* C28: the fetch effect issues a request only for a cause from outside:
\* its first run at mount, or a map center other than the one of its last
\* run.  Its own state updates (the cleared and the merged
\* landmarkSummaries) do not make it run again.
C28_FetchNotSelfTriggered ==
    [][fetchEffectDeps' # fetchEffectDeps
       => \/ fetchEffectDeps = <<>>
          \/ fetchEffectDeps[2] # mapCenter]_vars

\* C29: a step that calls onMarkerClick is the click on one rendered marker
\* and calls it once, with the object of that marker's entity as the list
\* holds it (no copy, no other entity), which the page's handler stores as
\* the selection; and no step that reports a moveend, renders, runs effects
\* or sets the handle calls onMarkerClick or changes the selection.
C29_ClickOnlyWritePath ==
    [][/\ clicks' # <<>> =>
             /\ Len(clicks') = 1
             /\ notes' = <<>> /\ cmds' = <<>> /\ evals' = <<>> /\ focusEvals' = <<>>
             /\ \E m \in markers :
                   /\ clicks'[1].marker = [kind |-> m.kind, key |-> m.key]
                   /\ clicks'[1].item =
                         IF m.kind = "user"
                         THEN [id |-> m.key, ver |-> users[m.key], kind |-> "list"]
                         ELSE [title |-> m.key, gen |-> rendered.landmarks]
                   /\ IF m.kind = "user"
                      THEN selectedUser' = clicks'[1].item
                      ELSE selectedLandmark' = clicks'[1].item
       /\ (notes' # <<>> \/ rendered' # rendered \/ mapRef' # mapRef
           \/ landmarkSummaries' # landmarkSummaries)
          => /\ clicks' = <<>>
             /\ selectedUser' = selectedUser
             /\ selectedLandmark' = selectedLandmark]_vars

\* The marker of landmark "lmA" has just been clicked while user u1 was
\* selected and a summary was in the cache.
C29_Witness ==
    /\ clicks # <<>> /\ clicks[1].marker.kind = "landmark"
    /\ selectedLandmark.title = "lmA" /\ selectedUser = NoUser
    /\ rendered.selectedUser # NoUser
    /\ landmarkSummaries # NoSummaries
    /\ mapRef # 0

\* C30: the handle is null or refers to the widget of the mounted view,
\* which has not been removed; and whatever a step calls on a widget, reads
\* from its camera or reports from it (setView, flyTo, the reconciler's and
\* the focus effect's reads, onMove) is done on the widget of the mounted
\* view before any remove() of it.
C30_HandleValid ==
    /\ mapRef # 0 => (mounted /\ mapRef = widget /\ removeCount[mapRef] = 0)
    /\ (SetViews # {} \/ FlyTos # {} \/ evals # <<>> \/ focusEvals # <<>>)
       => (mounted /\ mapRef # 0 /\ mapRef = widget /\ removeCount[widget] = 0)
    /\ notes # <<>> => (mounted /\ widget # 0 /\ removeCount[widget] = 0)
    /\ \A i \in 1..instances : removeCount[i] > 0 => i # widget

\* The first widget was removed at teardown; the second view's handle
\* refers to the second widget, which has just been sent a move.
C30_Witness ==
    /\ instances = 2 /\ removeCount[1] = 1
    /\ mapRef = 2 /\ widget = 2
    /\ FlyTos # {}

====
